---------------------------- MODULE Spec2Model ----------------------------
(***************************************************************************)
(* Burst debounce, FIFO pairing and deferred completion of the invoice bot *)
(* (src/main.py).  Texts are sequences of one-character strings, so that   *)
(* the label classifier is computed the way the code computes it.          *)
(***************************************************************************)
EXTENDS Integers, Sequences, FiniteSets, TLC

(***************************************************************************)
(* Bounds of the model.                                                    *)
(***************************************************************************)
MaxEvents == 3          \* messages that reach add_to_burst, over all users
MaxTime == 4            \* ticks of the event loop's clock
MaxDone == 1            \* /done commands
MaxDate == 1            \* message.date values are 0..MaxDate
MaxMore == 2            \* messages still to come in the deferred scenario
MaxLive == 2            \* messages of the run with fair timers
TicksPerSecond == 2     \* resolution of the modelled clock

(***************************************************************************)
(* Program constants.                                                      *)
(***************************************************************************)
BURST_DEBOUNCE == 1 * TicksPerSecond
NameMinLen == 2
NameMaxLen == 80
MaxWords == 4

Users == {"u1", "u2"}
ADMINS == Users

(***************************************************************************)
(* Texts.                                                                  *)
(***************************************************************************)
TxtPrefixed == <<"M", ":", " ", "A", "z">>
TxtBare == <<"A", "z">>
TxtPlace == <<"T", "k", ",", " ", "C", "h">>
Texts == {TxtPrefixed, TxtPlace}
PlaceArgs == {<<"T", "k">>}

None == <<>>

Letters == {"A", "C", "M", "T", "a", "c", "d", "f", "h", "i", "j", "k", "l",
            "m", "n", "o", "p", "r", "s", "t", "u", "z", "e"}
Digits == {"0", "1", "2", "3", "4", "5", "6", "7", "8", "9"}
Whitespace == {" "}
StripChars == {" ", "-", ":"}
SlashChars == {"/", "|", "\\"}

LowerChar(c) ==
  CASE c = "A" -> "a" [] c = "C" -> "c" [] c = "M" -> "m" [] c = "T" -> "t"
    [] OTHER -> c

Lower(s) == [i \in 1..Len(s) |-> LowerChar(s[i])]

StartsWith(s, p) == Len(p) <= Len(s) /\ SubSeq(s, 1, Len(p)) = p

Contains(s, sub) ==
  \E i \in 1..(Len(s) - Len(sub) + 1) : SubSeq(s, i, i + Len(sub) - 1) = sub

RECURSIVE LStrip(_, _)
LStrip(s, cs) ==
  IF s # <<>> /\ Head(s) \in cs THEN LStrip(Tail(s), cs) ELSE s

RECURSIVE RStrip(_, _)
RStrip(s, cs) ==
  IF s # <<>> /\ s[Len(s)] \in cs THEN RStrip(SubSeq(s, 1, Len(s) - 1), cs) ELSE s

Strip(s, cs) == RStrip(LStrip(s, cs), cs)

\* re.sub(r"\s+", " ", t): runs of whitespace become one space
RECURSIVE CollapseSpaces(_)
CollapseSpaces(s) ==
  IF s = <<>> THEN <<>>
  ELSE IF Head(s) \in Whitespace
       THEN <<" ">> \o CollapseSpaces(LStrip(Tail(s), Whitespace))
       ELSE <<Head(s)>> \o CollapseSpaces(Tail(s))

\* re.sub(r"[\/|\\]+", " ", text): runs of slashes become one space
RECURSIVE SlashesToSpace(_)
SlashesToSpace(s) ==
  IF s = <<>> THEN <<>>
  ELSE IF Head(s) \in SlashChars
       THEN <<" ">> \o SlashesToSpace(LStrip(Tail(s), SlashChars))
       ELSE <<Head(s)>> \o SlashesToSpace(Tail(s))

clean_name(text) ==
  IF text = <<>> THEN <<>>
  ELSE Strip(CollapseSpaces(SlashesToSpace(text)), StripChars)

LogisticsMarkers ==
  { <<"d", "a", "p">>, <<"f", "c", "a">>, <<"c", "p", "t">>, <<"c", "i", "p">>,
    <<"c", "i", "f">>, <<"d", "d", "p">>, <<",">>, <<" ", "-", " ">> }

looks_like_logistics(text) ==
  \E b \in LogisticsMarkers : Contains(Lower(text), b)

Prefixes ==
  << <<"m", "i", "j", "o", "z", ":">>, <<"m", ":">>,
     <<"c", "l", "i", "e", "n", "t", ":">>,
     <<"c", "u", "s", "t", "o", "m", "e", "r", ":">> >>

RECURSIVE KeepAllowed(_)
KeepAllowed(s) ==
  IF s = <<>> THEN <<>>
  ELSE IF Head(s) \in Letters \cup {"'", "-"} \cup Whitespace
       THEN <<Head(s)>> \o KeepAllowed(Tail(s))
       ELSE KeepAllowed(Tail(s))

\* len(cand.split()): maximal runs of non-whitespace
RECURSIVE WordCount(_)
WordCount(s) ==
  LET t == LStrip(s, Whitespace)
  IN IF t = <<>> THEN 0
     ELSE LET RECURSIVE SkipWord(_)
              SkipWord(w) == IF w # <<>> /\ Head(w) \notin Whitespace
                             THEN SkipWord(Tail(w)) ELSE w
          IN 1 + WordCount(SkipWord(t))

\* None (the empty text) when the text is no customer label
extract_customer_from_text(text) ==
  IF text = <<>> THEN None
  ELSE
    LET raw == Strip(text, Whitespace)
        low == Lower(raw)
        hits == {i \in 1..Len(Prefixes) : StartsWith(low, Prefixes[i])}
    IN IF hits # {}
       THEN LET p == Prefixes[CHOOSE i \in hits : \A j \in hits : i <= j]
                name == clean_name(SubSeq(raw, Len(p) + 1, Len(raw)))
            IN IF NameMinLen <= Len(name) /\ Len(name) <= NameMaxLen
               THEN name ELSE None
       ELSE IF looks_like_logistics(raw) THEN None
       ELSE IF \E i \in 1..Len(raw) : raw[i] \in Digits THEN None
       ELSE LET cand == clean_name(KeepAllowed(raw))
            IN IF ~(NameMinLen <= Len(cand) /\ Len(cand) <= NameMaxLen) THEN None
               ELSE IF ~(1 <= WordCount(cand) /\ WordCount(cand) <= MaxWords) THEN None
               ELSE cand


(***************************************************************************)
(* State.                                                                  *)
(***************************************************************************)
VARIABLES
  now,             \* asyncio.get_event_loop().time(), in ticks
  nextId,          \* messages handed to add_to_burst so far
  budget,          \* messages still to come
  ticks,           \* clock ticks still to come
  numDone,         \* /done commands so far
  BURST_ITEMS,     \* uid -> messages buffered
  BURST_LAST_TS,   \* uid -> loop time of the last add (a dict: partial)
  PENDING_FILES,   \* uid -> queue of document messages
  PENDING_NAMES,   \* uid -> queue of customer names
  DEFAULT_PLACES,  \* uid -> place (a dict: partial)
  AWAITING_PLACE,  \* uid -> list of {data, customer}
  DONE_WAITING,    \* set of uids
  timers,          \* _debounced_flush tasks that are asleep
  flushes,         \* flush_burst invocations suspended at an await
  report,          \* calls of write_to_report, in order, with their outcome
  batches,         \* history: every snapshot taken by flush_burst
  paired,          \* history: every (file, customer) popped by try_pair_and_process
  discarded,       \* history: labels that met an empty PENDING_FILES at line 202
  extracted,       \* history: pairs whose extract_invoice_data succeeded
  hist,            \* history: uid and loop time of every add_to_burst
  failed,          \* history: pairs whose extract_invoice_data raised
  BURSTS,          \* bulk_forward: uid -> its window (a dict: partial)
  windows,         \* bulk_forward: the window objects {expires, items}
  tasks,           \* bulk_forward: _flush invocations suspended at an await
  notes,           \* the unmatched notifications sent (main.py sends none)
  ended            \* history: messages a burst_end found buffered

vars == <<now, nextId, budget, ticks, numDone, BURST_ITEMS, BURST_LAST_TS,
          PENDING_FILES, PENDING_NAMES, DEFAULT_PLACES, AWAITING_PLACE,
          DONE_WAITING, timers, flushes, report, batches, paired, discarded,
          extracted, hist,
          failed,
          BURSTS,
          windows,
          tasks,
          notes,
          ended>>

Init ==
  /\ now = 0
  /\ nextId = 0
  /\ budget = MaxEvents
  /\ ticks = MaxTime
  /\ numDone = 0
  /\ BURST_ITEMS = [u \in Users |-> <<>>]
  /\ BURST_LAST_TS = [u \in {} |-> 0]
  /\ PENDING_FILES = [u \in Users |-> <<>>]
  /\ PENDING_NAMES = [u \in Users |-> <<>>]
  /\ DEFAULT_PLACES = [u \in {} |-> <<>>]
  /\ AWAITING_PLACE = [u \in Users |-> <<>>]
  /\ DONE_WAITING = {}
  /\ timers = {}
  /\ flushes = {}
  /\ report = <<>>
  /\ batches = <<>>
  /\ paired = <<>>
  /\ discarded = {}
  /\ extracted = {}
  /\ hist = <<>>
  /\ failed = {}
  /\ BURSTS = [u \in {} |-> 0]
  /\ windows = <<>>
  /\ tasks = {}
  /\ notes = <<>>
  /\ ended = {}

(***************************************************************************)
(* Helpers of the handlers.                                                *)
(***************************************************************************)
is_admin(u) == u \in ADMINS

PutAll(d, k, v) == [x \in DOMAIN d \cup {k} |-> v]
\* dict[key] = value
Put(d, k, v) == [x \in DOMAIN d \cup {k} |-> IF x = k THEN v ELSE d[x]]

\* BURST_LAST_TS.get(u, 0)
LastTs(u) == IF u \in DOMAIN BURST_LAST_TS THEN BURST_LAST_TS[u] ELSE 0

\* line 260: the task is out of date when a newer message was stamped later
IsStaleNever(last, started_at) == FALSE
IsStaleOrEqual(last, started_at) == last >= started_at
IsStale(last, started_at) == last > started_at

\* line 186: what BURST_ITEMS[uid] holds after the snapshot was copied
AfterSnapshotKept(items) == items
AfterSnapshot(items) == <<>>

\* line 192: list.sort by message date, stable
RECURSIVE InsertByDate(_, _)
InsertByDate(e, s) ==
  IF s = <<>> THEN <<e>>
  ELSE IF s[Len(s)].date <= e.date THEN Append(s, e)
  ELSE Append(InsertByDate(e, SubSeq(s, 1, Len(s) - 1)), s[Len(s)])

RECURSIVE SortByDate(_)
SortByDate(items) ==
  IF items = <<>> THEN <<>>
  ELSE InsertByDate(items[Len(items)], SortByDate(SubSeq(items, 1, Len(items) - 1)))

\* nothing reads message.date once the batch is sorted
Undated(items) ==
  [i \in 1..Len(items) |->
     [id |-> items[i].id, kind |-> items[i].kind, text |-> items[i].text]]

\* line 202: a name is queued only while a file is waiting
AcceptLabelAlways(nm, pf) == nm # None
AcceptLabel(nm, pf) == nm # None /\ pf # <<>>

(***************************************************************************)
(* flush_burst's loop and try_pair_and_process, run from one await to the  *)
(* next: m is the coroutine's view (the two queues of the user, the rest   *)
(* of items_local, where it stops), ask is line 245's condition.           *)
(***************************************************************************)
RECURSIVE TryPair(_, _)
RECURSIVE Consume(_, _)
TryPairNever(m, ask) ==
  IF ask THEN [m EXCEPT !.pc = "ask"] ELSE Consume(m, ask)
\* lines 218-227 and 245-246
TryPair(m, ask) ==
  IF m.pf # <<>> /\ m.pn # <<>>
  THEN [m EXCEPT !.pf = Tail(m.pf), !.pn = Tail(m.pn), !.pc = "download",
                 !.file = Head(m.pf), !.customer = Head(m.pn),
                 !.pairs = Append(m.pairs, [file |-> Head(m.pf).id,
                                            label |-> Head(m.pn).id])]
  ELSE IF ask THEN [m EXCEPT !.pc = "ask"]
  ELSE Consume(m, ask)

\* lines 194-210
Consume(m, ask) ==
  IF m.items = <<>> THEN [m EXCEPT !.pc = "done"]
  ELSE LET e == Head(m.items)
           rest == Tail(m.items)
           nm == extract_customer_from_text(e.text)
           disc == IF e.kind = "text" /\ nm # None /\ m.pf = <<>>
                   THEN m.disc \cup {e.id} ELSE m.disc
       IN IF e.kind = "doc"
          THEN TryPair([m EXCEPT !.items = rest, !.pf = Append(m.pf, e)], ask)
          ELSE IF AcceptLabel(nm, m.pf)
               THEN TryPair([m EXCEPT !.items = rest, !.disc = disc,
                                      !.pn = Append(m.pn, [nm |-> nm, id |-> e.id])],
                            ask)
               ELSE TryPair([m EXCEPT !.items = rest, !.disc = disc], ask)

NoFile == [id |-> 0, kind |-> "none", text |-> <<>>]
NoName == [nm |-> <<>>, id |-> 0]

Machine(pf, pn, items) ==
  [pf |-> pf, pn |-> pn, items |-> items, pc |-> "run", file |-> NoFile,
   customer |-> NoName, pairs |-> <<>>, disc |-> {}]

\* line 245
AskNeeded(u, aw) == aw # <<>> /\ u \notin DOMAIN DEFAULT_PLACES

\* write_to_report(data, place, customer), with its outcome
Call(item, place, ok) ==
  [file |-> item.data, customer |-> item.customer, label |-> item.label,
   place |-> place, ok |-> ok]

\* for item in pairs: write_to_report(...), the k+1-th call raising (k = Len: none)
Writes(pairs, place, k) ==
  [i \in 1..(IF k < Len(pairs) THEN k + 1 ELSE k) |-> Call(pairs[i], place, i <= k)]

(***************************************************************************)
(* cmd_done after its flush_burst returned (lines 148-169): aw and rep are *)
(* AWAITING_PLACE[u] and the report as the step has left them so far.      *)
(***************************************************************************)
DoneTail(u, aw, rep) ==
  IF aw # <<>> /\ u \notin DOMAIN DEFAULT_PLACES
  THEN /\ DONE_WAITING' = DONE_WAITING \cup {u}
       /\ AWAITING_PLACE' = [AWAITING_PLACE EXCEPT ![u] = aw]
       /\ report' = rep
  ELSE IF aw # <<>>
  THEN /\ \E k \in 0..Len(aw) :
            report' = rep \o Writes(aw, DEFAULT_PLACES[u], k)
       /\ AWAITING_PLACE' = [AWAITING_PLACE EXCEPT ![u] = <<>>]
       /\ UNCHANGED DONE_WAITING
  ELSE /\ AWAITING_PLACE' = [AWAITING_PLACE EXCEPT ![u] = aw]
       /\ report' = rep
       /\ UNCHANGED DONE_WAITING

(***************************************************************************)
(* What one run of a flush_burst invocation f, from one await to the next, *)
(* leaves behind: m is where the coroutine stopped, bt the batch history.  *)
(***************************************************************************)
Settle(f, m, aw, rep, bt) ==
  /\ PENDING_FILES' = [PENDING_FILES EXCEPT ![f.u] = m.pf]
  /\ PENDING_NAMES' = [PENDING_NAMES EXCEPT ![f.u] = m.pn]
  /\ paired' = paired \o [i \in 1..Len(m.pairs) |->
                            [fid |-> f.fid, file |-> m.pairs[i].file,
                             label |-> m.pairs[i].label]]
  /\ discarded' = discarded \cup m.disc
  /\ IF m.pc = "done"
     THEN /\ flushes' = flushes \ {f}
          /\ batches' = [bt EXCEPT ![f.fid].st = "done"]
          /\ IF f.kind = "done"
             THEN DoneTail(f.u, aw, rep)
             ELSE /\ AWAITING_PLACE' = [AWAITING_PLACE EXCEPT ![f.u] = aw]
                  /\ report' = rep
                  /\ UNCHANGED DONE_WAITING
     ELSE /\ flushes' = (flushes \ {f}) \cup
                          {[f EXCEPT !.items = m.items, !.pc = m.pc,
                                     !.file = m.file, !.customer = m.customer]}
          /\ batches' = bt
          /\ AWAITING_PLACE' = [AWAITING_PLACE EXCEPT ![f.u] = aw]
          /\ report' = rep
          /\ UNCHANGED DONE_WAITING

(***************************************************************************)
(* flush_burst(uid), lines 174-210, up to its first await.                 *)
(***************************************************************************)
FlushBegin(u, kind, ev) ==
  IF BURST_ITEMS[u] = <<>>
  THEN /\ IF kind = "done"
          THEN DoneTail(u, AWAITING_PLACE[u], report)
          ELSE UNCHANGED <<AWAITING_PLACE, report, DONE_WAITING>>
       /\ UNCHANGED <<BURST_ITEMS, PENDING_FILES, PENDING_NAMES, flushes,
                      batches, paired, discarded>>
  ELSE LET items_local == Undated(SortByDate(BURST_ITEMS[u]))
           f == [fid |-> Len(batches) + 1, u |-> u, kind |-> kind,
                 items |-> items_local, pc |-> "run", file |-> NoFile,
                 customer |-> NoName]
           m == Consume(Machine(PENDING_FILES[u], <<>>, items_local),
                        AskNeeded(u, AWAITING_PLACE[u]))
       IN /\ BURST_ITEMS' = [BURST_ITEMS EXCEPT ![u] = AfterSnapshot(@)]
          /\ Settle(f, m, AWAITING_PLACE[u], report,
                    Append(batches,
                           [u |-> u, kind |-> kind, ev |-> ev, st |-> "running",
                            items |-> [i \in 1..Len(BURST_ITEMS[u]) |->
                                         BURST_ITEMS[u][i].id],
                            sorted |-> [i \in 1..Len(items_local) |->
                                          [id |-> items_local[i].id,
                                           kind |-> items_local[i].kind]]]))

(***************************************************************************)
(* add_to_burst(uid, message), lines 248-265.                              *)
(***************************************************************************)
add_to_burst_waits(u, message) ==
  /\ {f \in flushes : f.u = u} = {}
  /\ BURST_ITEMS' = [BURST_ITEMS EXCEPT ![u] = Append(@, message)]
  /\ BURST_LAST_TS' = Put(BURST_LAST_TS, u, now)
  /\ timers' = timers \cup {[u |-> u, started_at |-> now, ev |-> message.id]}
  /\ nextId' = message.id
  /\ budget' = budget - 1
  /\ hist' = Append(hist, [u |-> u, ts |-> now])
add_to_burst(u, message) ==
  /\ BURST_ITEMS' = [BURST_ITEMS EXCEPT ![u] = Append(@, message)]
  /\ BURST_LAST_TS' = Put(BURST_LAST_TS, u, now)
  /\ timers' = timers \cup {[u |-> u, started_at |-> now, ev |-> message.id]}
  /\ nextId' = message.id
  /\ budget' = budget - 1
  /\ hist' = Append(hist, [u |-> u, ts |-> now])

(***************************************************************************)
(* The handlers.                                                           *)
(***************************************************************************)
\* on_document, lines 271-279 (documents that are not Excel never get further)
OnDocument(u) ==
  /\ is_admin(u)
  /\ budget > 0
  /\ \E d \in 0..MaxDate :
       add_to_burst(u, [id |-> nextId + 1, kind |-> "doc", text |-> <<>>,
                        date |-> d])
  /\ UNCHANGED <<now, ticks, numDone, PENDING_FILES, PENDING_NAMES, DEFAULT_PLACES,
                 AWAITING_PLACE, DONE_WAITING, flushes, report, batches,
                 paired, discarded, extracted, failed, BURSTS, windows, tasks, notes, ended>>

\* on_text, lines 289-307: the text is taken as the place
OnTextPlace(u) ==
  /\ is_admin(u)
  /\ \E raw \in Texts :
       LET text == Strip(raw, Whitespace)
       IN /\ AWAITING_PLACE[u] # <<>>
          /\ extract_customer_from_text(text) = None
          /\ \E k \in 0..Len(AWAITING_PLACE[u]) :
               /\ report' = report \o Writes(AWAITING_PLACE[u], text, k)
               /\ DONE_WAITING' = IF k = Len(AWAITING_PLACE[u])
                                  THEN DONE_WAITING \ {u} ELSE DONE_WAITING
          /\ AWAITING_PLACE' = [AWAITING_PLACE EXCEPT ![u] = <<>>]
  /\ UNCHANGED <<now, nextId, budget, ticks, numDone, BURST_ITEMS, BURST_LAST_TS,
                 PENDING_FILES, PENDING_NAMES, DEFAULT_PLACES, timers, flushes,
                 batches, paired, discarded, extracted, hist, failed, BURSTS, windows, tasks, notes, ended>>

\* on_text, lines 309-312: the text goes to the burst as a customer name
OnTextLabel(u) ==
  /\ is_admin(u)
  /\ budget > 0
  /\ \E raw \in Texts, d \in 0..MaxDate :
       LET text == Strip(raw, Whitespace)
       IN /\ ~(AWAITING_PLACE[u] # <<>> /\ extract_customer_from_text(text) = None)
          /\ extract_customer_from_text(text) # None
          /\ add_to_burst(u, [id |-> nextId + 1, kind |-> "text", text |-> raw,
                              date |-> d])
  /\ UNCHANGED <<now, ticks, numDone, PENDING_FILES, PENDING_NAMES, DEFAULT_PLACES,
                 AWAITING_PLACE, DONE_WAITING, flushes, report, batches,
                 paired, discarded, extracted, failed, BURSTS, windows, tasks, notes, ended>>

\* on_text, line 314: any other text is ignored
OnTextIgnored(u) ==
  /\ is_admin(u)
  /\ \E raw \in Texts :
       LET text == Strip(raw, Whitespace)
       IN /\ AWAITING_PLACE[u] = <<>>
          /\ extract_customer_from_text(text) = None
  /\ UNCHANGED vars

\* set_default_place, lines 125-134
SetDefaultPlace(u) ==
  /\ is_admin(u)
  /\ \E p \in PlaceArgs :
       /\ IF u \in DOMAIN DEFAULT_PLACES THEN DEFAULT_PLACES[u] # p ELSE TRUE
       /\ DEFAULT_PLACES' = Put(DEFAULT_PLACES, u, p)
  /\ UNCHANGED <<now, nextId, budget, ticks, numDone, BURST_ITEMS, BURST_LAST_TS,
                 PENDING_FILES, PENDING_NAMES, AWAITING_PLACE, DONE_WAITING,
                 timers, flushes, report, batches, paired, discarded,
                 extracted, hist, failed, BURSTS, windows, tasks, notes, ended>>

\* cmd_done, lines 139-169, up to the first await of its flush_burst
CmdDone(u) ==
  /\ is_admin(u)
  /\ numDone < MaxDone
  /\ numDone' = numDone + 1
  /\ FlushBegin(u, "done", 0)
  /\ UNCHANGED <<now, nextId, budget, ticks, BURST_LAST_TS, DEFAULT_PLACES, timers,
                 extracted, hist, failed, BURSTS, windows, tasks, notes, ended>>

\* _debounced_flush after its sleep, lines 258-262
TimerFire(u) ==
  \E t \in timers :
    /\ t.u = u
    /\ now >= t.started_at + BURST_DEBOUNCE
    /\ timers' = timers \ {t}
    /\ IF IsStale(LastTs(u), t.started_at)
       THEN UNCHANGED <<BURST_ITEMS, PENDING_FILES, PENDING_NAMES,
                        AWAITING_PLACE, DONE_WAITING, flushes, report, batches,
                        paired, discarded>>
       ELSE FlushBegin(u, "timer", t.ev)
    /\ UNCHANGED <<now, nextId, budget, ticks, numDone, BURST_LAST_TS, DEFAULT_PLACES,
                   extracted, hist, failed, BURSTS, windows, tasks, notes, ended>>

(***************************************************************************)
(* A suspended flush_burst is resumed: the awaited call returns or raises. *)
(***************************************************************************)
Resume(f) == Machine(PENDING_FILES[f.u], PENDING_NAMES[f.u], f.items)

Item(f) == [data |-> f.file.id, customer |-> f.customer.nm, label |-> f.customer.id]

\* lines 236-242: where a pair whose data was extracted goes
FinalizeBoth(u, item, aw, rep) ==
  [aw |-> Append(aw, item),
   rep |-> IF u \in DOMAIN DEFAULT_PLACES
           THEN Append(rep, Call(item, DEFAULT_PLACES[u], TRUE)) ELSE rep]
Finalize(u, item, aw, rep) ==
  IF u \in DOMAIN DEFAULT_PLACES
  THEN [aw |-> aw, rep |-> Append(rep, Call(item, DEFAULT_PLACES[u], TRUE))]
  ELSE [aw |-> Append(aw, item), rep |-> rep]

\* the awaited download, answer or send_message raises: the invocation ends
FlushAbort(u) ==
  \E f \in flushes :
    /\ f.u = u
    /\ flushes' = flushes \ {f}
    /\ batches' = [batches EXCEPT ![f.fid].st = "failed"]
    /\ UNCHANGED <<now, nextId, budget, ticks, numDone, BURST_ITEMS, BURST_LAST_TS,
                   PENDING_FILES, PENDING_NAMES, DEFAULT_PLACES, AWAITING_PLACE,
                   DONE_WAITING, timers, report, paired, discarded,
                   extracted, hist, failed, BURSTS, windows, tasks, notes, ended>>

\* lines 230-234: extract_invoice_data raises, the failure is answered
ExtractAborts(u) ==
  \E f \in flushes :
    /\ f.u = u
    /\ f.pc = "download"
    /\ failed' = failed \cup {[file |-> f.file.id, label |-> f.customer.id]}
    /\ flushes' = flushes \ {f}
    /\ batches' = [batches EXCEPT ![f.fid].st = "failed"]
    /\ UNCHANGED <<now, nextId, budget, ticks, numDone, BURST_ITEMS, BURST_LAST_TS,
                   PENDING_FILES, PENDING_NAMES, DEFAULT_PLACES, AWAITING_PLACE,
                   DONE_WAITING, timers, report, paired, discarded,
                   extracted, hist, BURSTS, windows, tasks, notes, ended>>
ExtractFails(u) ==
  \E f \in flushes :
    /\ f.u = u
    /\ f.pc = "download"
    /\ failed' = failed \cup {[file |-> f.file.id, label |-> f.customer.id]}
    /\ flushes' = (flushes \ {f}) \cup {[f EXCEPT !.pc = "answer"]}
    /\ UNCHANGED <<now, nextId, budget, ticks, numDone, BURST_ITEMS, BURST_LAST_TS,
                   PENDING_FILES, PENDING_NAMES, DEFAULT_PLACES, AWAITING_PLACE,
                   DONE_WAITING, timers, report, batches, paired, discarded,
                   extracted, hist, BURSTS, windows, tasks, notes, ended>>

\* lines 227-242, then the loop again: the download and the extraction succeed
FinalizeOk(u) ==
  \E f \in flushes :
    /\ f.u = u
    /\ f.pc = "download"
    /\ extracted' = extracted \cup {[file |-> f.file.id, label |-> f.customer.id]}
    /\ LET r == Finalize(u, Item(f), AWAITING_PLACE[u], report)
       IN Settle(f, TryPair(Resume(f), AskNeeded(u, r.aw)), r.aw, r.rep, batches)
    /\ UNCHANGED <<now, nextId, budget, ticks, numDone, BURST_ITEMS, BURST_LAST_TS,
                   DEFAULT_PLACES, timers, hist, failed, BURSTS, windows, tasks, notes, ended>>

\* line 239: write_to_report raises, and nothing in flush_burst catches it
WriteFails(u) ==
  \E f \in flushes :
    /\ f.u = u
    /\ f.pc = "download"
    /\ u \in DOMAIN DEFAULT_PLACES
    /\ extracted' = extracted \cup {[file |-> f.file.id, label |-> f.customer.id]}
    /\ report' = Append(report, Call(Item(f), DEFAULT_PLACES[u], FALSE))
    /\ flushes' = flushes \ {f}
    /\ batches' = [batches EXCEPT ![f.fid].st = "failed"]
    /\ UNCHANGED <<now, nextId, budget, ticks, numDone, BURST_ITEMS, BURST_LAST_TS,
                   PENDING_FILES, PENDING_NAMES, DEFAULT_PLACES, AWAITING_PLACE,
                   DONE_WAITING, timers, paired, discarded, hist, failed, BURSTS, windows, tasks, notes, ended>>

\* line 233 returned: `continue` goes back to the while of line 218
AnswerSent(u) ==
  \E f \in flushes :
    /\ f.u = u
    /\ f.pc = "answer"
    /\ Settle(f, TryPair(Resume(f), AskNeeded(u, AWAITING_PLACE[u])),
              AWAITING_PLACE[u], report, batches)
    /\ UNCHANGED <<now, nextId, budget, ticks, numDone, BURST_ITEMS, BURST_LAST_TS,
                   DEFAULT_PLACES, timers, extracted, hist, failed, BURSTS, windows, tasks, notes, ended>>

\* line 246 returned: the for loop of line 194 takes the next message
AskSent(u) ==
  \E f \in flushes :
    /\ f.u = u
    /\ f.pc = "ask"
    /\ Settle(f, Consume(Resume(f), AskNeeded(u, AWAITING_PLACE[u])),
              AWAITING_PLACE[u], report, batches)
    /\ UNCHANGED <<now, nextId, budget, ticks, numDone, BURST_ITEMS, BURST_LAST_TS,
                   DEFAULT_PLACES, timers, extracted, hist, failed, BURSTS, windows, tasks, notes, ended>>

\* the event loop's clock advances
Tick ==
  /\ ticks > 0
  /\ ticks' = ticks - 1
  /\ now' = now + 1
  /\ UNCHANGED <<nextId, budget, numDone, BURST_ITEMS, BURST_LAST_TS,
                 PENDING_FILES, PENDING_NAMES, DEFAULT_PLACES, AWAITING_PLACE,
                 DONE_WAITING, timers, flushes, report, batches, paired,
                 discarded, extracted, hist, failed, BURSTS, windows, tasks, notes, ended>>

UserNext(u) ==
  \/ OnDocument(u)
  \/ OnTextPlace(u)
  \/ OnTextLabel(u)
  \/ OnTextIgnored(u)
  \/ SetDefaultPlace(u)
  \/ CmdDone(u)
  \/ TimerFire(u)
  \/ FlushAbort(u)
  \/ ExtractFails(u)
  \/ FinalizeOk(u)
  \/ WriteFails(u)
  \/ AnswerSent(u)
  \/ AskSent(u)

Next == Tick \/ UserNext("u1")

Spec == Init /\ [][Next]_vars

(***************************************************************************)
(* The deferred scenario: user u1 has sent file 1, "M: Az", file 3 and     *)
(* "M: Az" one tick apart with no default place on file; the last timer    *)
(* has taken the batch, pair (1, 2) is awaiting its place and the flush is *)
(* suspended in the download of file 3, which it has paired with name 4.   *)
(***************************************************************************)
DeferredBatch ==
  [u |-> "u1", kind |-> "timer", ev |-> 4, st |-> "running",
   items |-> <<1, 2, 3, 4>>,
   sorted |-> <<[id |-> 1, kind |-> "doc"], [id |-> 2, kind |-> "text"],
                [id |-> 3, kind |-> "doc"], [id |-> 4, kind |-> "text"]>>]

DeferredFlush ==
  [fid |-> 1, u |-> "u1", kind |-> "timer", items |-> <<>>, pc |-> "download",
   file |-> [id |-> 3, kind |-> "doc", text |-> <<>>],
   customer |-> [nm |-> <<"A", "z">>, id |-> 4]]

DeferredState ==
  /\ now = 3 + BURST_DEBOUNCE
  /\ nextId = 4
  /\ numDone = 0
  /\ BURST_ITEMS = [u \in Users |-> <<>>]
  /\ BURST_LAST_TS = [u \in {"u1"} |-> 3]
  /\ PENDING_FILES = [u \in Users |-> <<>>]
  /\ PENDING_NAMES = [u \in Users |-> <<>>]
  /\ DEFAULT_PLACES = [u \in {} |-> <<>>]
  /\ AWAITING_PLACE = [u \in Users |->
                         IF u = "u1"
                         THEN <<[data |-> 1, customer |-> <<"A", "z">>, label |-> 2]>>
                         ELSE <<>>]
  /\ DONE_WAITING = {}
  /\ timers = {}
  /\ flushes = {DeferredFlush}
  /\ report = <<>>
  /\ batches = <<DeferredBatch>>
  /\ paired = <<[fid |-> 1, file |-> 1, label |-> 2],
                [fid |-> 1, file |-> 3, label |-> 4]>>
  /\ discarded = {}
  /\ extracted = {[file |-> 1, label |-> 2]}
  /\ hist = [i \in 1..4 |-> [u |-> "u1", ts |-> i - 1]]
  /\ failed = {}
  /\ BURSTS = [u \in {} |-> 0]
  /\ windows = <<>>
  /\ tasks = {}
  /\ notes = <<>>
  /\ ended = {}

InitDeferred ==
  /\ DeferredState
  /\ budget = MaxMore
  /\ ticks = BURST_DEBOUNCE

SpecDeferred == InitDeferred /\ [][Next]_vars


(***************************************************************************)
(* The failed scenario: user u1 has sent file 1, file 2 and "M: Az" one    *)
(* tick apart with no default place on file; the last timer has taken the  *)
(* batch, try_pair_and_process has popped file 1 and the name, and the     *)
(* download has raised: flush_burst is over, file 2 is in PENDING_FILES.   *)
(***************************************************************************)
FailedBatch ==
  [u |-> "u1", kind |-> "timer", ev |-> 3, st |-> "failed",
   items |-> <<1, 2, 3>>,
   sorted |-> <<[id |-> 1, kind |-> "doc"], [id |-> 2, kind |-> "doc"],
                [id |-> 3, kind |-> "text"]>>]

FailedState ==
  /\ now = 2 + BURST_DEBOUNCE
  /\ nextId = 3
  /\ numDone = 0
  /\ BURST_ITEMS = [u \in Users |-> <<>>]
  /\ BURST_LAST_TS = [u \in {"u1"} |-> 2]
  /\ PENDING_FILES = [u \in Users |->
                        IF u = "u1" THEN <<[id |-> 2, kind |-> "doc", text |-> <<>>]>>
                        ELSE <<>>]
  /\ PENDING_NAMES = [u \in Users |-> <<>>]
  /\ DEFAULT_PLACES = [u \in {} |-> <<>>]
  /\ AWAITING_PLACE = [u \in Users |-> <<>>]
  /\ DONE_WAITING = {}
  /\ timers = {}
  /\ flushes = {}
  /\ report = <<>>
  /\ batches = <<FailedBatch>>
  /\ paired = <<[fid |-> 1, file |-> 1, label |-> 3]>>
  /\ discarded = {}
  /\ extracted = {}
  /\ hist = [i \in 1..3 |-> [u |-> "u1", ts |-> i - 1]]
  /\ failed = {}
  /\ BURSTS = [u \in {} |-> 0]
  /\ windows = <<>>
  /\ tasks = {}
  /\ notes = <<>>
  /\ ended = {}

InitFailed ==
  /\ FailedState
  /\ budget = MaxMore
  /\ ticks = BURST_DEBOUNCE

SpecFailed == InitFailed /\ [][Next]_vars

(***************************************************************************)
(* The bot with a clock that keeps going and timers that do fire: asyncio  *)
(* wakes every sleeping task once its delay has passed (line 258).         *)
(***************************************************************************)
InitLive ==
  /\ now = 0
  /\ nextId = 0
  /\ budget = MaxLive
  /\ ticks = MaxTime
  /\ numDone = 0
  /\ BURST_ITEMS = [u \in Users |-> <<>>]
  /\ BURST_LAST_TS = [u \in {} |-> 0]
  /\ PENDING_FILES = [u \in Users |-> <<>>]
  /\ PENDING_NAMES = [u \in Users |-> <<>>]
  /\ DEFAULT_PLACES = [u \in {} |-> <<>>]
  /\ AWAITING_PLACE = [u \in Users |-> <<>>]
  /\ DONE_WAITING = {}
  /\ timers = {}
  /\ flushes = {}
  /\ report = <<>>
  /\ batches = <<>>
  /\ paired = <<>>
  /\ discarded = {}
  /\ extracted = {}
  /\ hist = <<>>
  /\ failed = {}
  /\ BURSTS = [u \in {} |-> 0]
  /\ windows = <<>>
  /\ tasks = {}
  /\ notes = <<>>
  /\ ended = {}

\* ENABLED <<TimerFire(u)>>_vars, written out: a timer of u is due
TimerDue(u) ==
  \E t \in timers : t.u = u /\ now >= t.started_at + BURST_DEBOUNCE

\* WF_vars(TimerFire(u)), with the enabling condition written out
FairTimers(u) == []<>(~TimerDue(u)) \/ []<><<TimerFire(u)>>_vars

SpecLive ==
  InitLive /\ [][Next]_vars /\ WF_vars(Tick) /\ FairTimers("u1")

(***************************************************************************)
(* Two users at the handlers of main.py.                                   *)
(***************************************************************************)
NextUsers == Tick \/ UserNext("u1") \/ UserNext("u2")

SpecUsers == InitLive /\ [][NextUsers]_vars

(***************************************************************************)
(* src/handlers/bulk_forward.py: the burst window of a user is a dict      *)
(* object that BURSTS refers to; windows holds the objects, BURSTS and the *)
(* variable b of a suspended _flush hold indexes into it.  The pending     *)
(* queues are locals of each _flush.                                       *)
(***************************************************************************)
BURST_TTL == 12 * TicksPerSecond
DEBOUNCE == 1 * TicksPerSecond
\* line 27: the characters of " -:" and the two dashes, which no text here has
BulkStripChars == {" ", "-", ":"}

\* _extract_customer, lines 22-28; None and "" are both falsy at line 92
Bulk_extract_customer(text) ==
  IF text = <<>> THEN None
  ELSE
    LET t == Strip(text, Whitespace)
        low == Lower(t)
        hits == {i \in 1..Len(Prefixes) : StartsWith(low, Prefixes[i])}
    IN IF hits # {}
       THEN LET p == Prefixes[CHOOSE i \in hits : \A j \in hits : i <= j]
            IN Strip(SubSeq(t, Len(p) + 1, Len(t)), BulkStripChars)
       ELSE None

NewWindowNever(u) == u \notin DOMAIN BURSTS
\* _burst, lines 32-33: a user without a window, or with one that expired,
\* gets a new object
NewWindow(u) ==
  IF u \in DOMAIN BURSTS THEN windows[BURSTS[u]].expires < now ELSE TRUE

\* _burst, lines 30-35: the object it returns, and the objects afterwards
Bulk_burst(u) == IF NewWindow(u) THEN Len(windows) + 1 ELSE BURSTS[u]

WindowsAfterBurst(u) ==
  IF NewWindow(u) THEN Append(windows, [expires |-> now, items |-> <<>>])
  ELSE windows

\* BURSTS.pop(u, None)
Pop(d, k) == [x \in DOMAIN d \ {k} |-> d[x]]

\* lines 96-100: the warnings still to send (k files have been warned about)
BulkLeftovers(t) ==
  IF t.k < Len(t.pf) THEN [t EXCEPT !.pc = "warn_file"]
  ELSE IF t.pn # <<>> THEN [t EXCEPT !.pc = "warn_names"]
  ELSE [t EXCEPT !.pc = "done"]

\* _flush's loop and its try_pair_and_process, run from one await to the next
RECURSIVE BulkTryPair(_)
RECURSIVE BulkConsume(_)
\* lines 69-74
BulkTryPair(t) ==
  IF t.pf # <<>> /\ t.pn # <<>>
  THEN [t EXCEPT !.pf = Tail(t.pf), !.pn = Tail(t.pn), !.pc = "get_file",
                 !.file = Head(t.pf), !.customer = Head(t.pn)]
  ELSE BulkConsume(t)

\* lines 86-94
BulkConsume(t) ==
  IF t.items = <<>> THEN BulkLeftovers(t)
  ELSE LET e == Head(t.items)
           rest == Tail(t.items)
           nm == Bulk_extract_customer(e.text)
       IN IF e.kind = "doc"
          THEN BulkTryPair([t EXCEPT !.items = rest, !.pf = Append(t.pf, e)])
          ELSE IF nm # <<>>
               THEN BulkTryPair([t EXCEPT !.items = rest,
                                          !.pn = Append(t.pn, [nm |-> nm, id |-> e.id])])
               ELSE BulkConsume([t EXCEPT !.items = rest])

\* the coroutine t0 has run up to t1: suspended again, or past line 102
BulkSettle(t0, t1, bt) ==
  /\ tasks' = IF t1.pc = "done" THEN tasks \ {t0} ELSE (tasks \ {t0}) \cup {t1}
  /\ BURSTS' = IF t1.pc = "done" THEN Pop(BURSTS, t1.u) ELSE BURSTS
  /\ batches' = IF t1.pc = "done"
                THEN [bt EXCEPT ![t1.bid].st = "done",
                                ![t1.bid].files = [i \in 1..Len(t1.pf) |-> t1.pf[i].id],
                                ![t1.bid].names = Len(t1.pn)]
                ELSE bt
  /\ paired' = IF t1.pc = "get_file"
               THEN Append(paired, [fid |-> t1.bid, file |-> t1.file.id,
                                    label |-> t1.customer.id])
               ELSE paired

\* collect_and_process, lines 42-45: _add, then _flush up to its sleep
collect_and_process(u) ==
  /\ budget > 0
  /\ \E kind \in {"doc", "text"}, raw \in Texts, d \in 0..MaxDate :
       LET m == [id |-> nextId + 1, kind |-> kind,
                 text |-> IF kind = "doc" THEN <<>> ELSE raw, date |-> d]
           b == Bulk_burst(u)
       IN /\ kind = "doc" => raw = TxtPrefixed   \* a document has no text
          /\ windows' = [WindowsAfterBurst(u) EXCEPT
                           ![b] = [expires |-> now + BURST_TTL,
                                   items |-> Append(@.items, m)]]
          /\ BURSTS' = Put(BURSTS, u, b)
          /\ tasks' = tasks \cup
               {[tid |-> m.id, u |-> u, b |-> b, wake |-> now + DEBOUNCE,
                 pc |-> "sleep", items |-> <<>>, pf |-> <<>>, pn |-> <<>>,
                 k |-> 0, file |-> NoFile, customer |-> NoName, bid |-> 0,
                 last |-> 0]}
          /\ nextId' = m.id
          /\ budget' = budget - 1
          /\ hist' = Append(hist, [u |-> u, ts |-> now])
  /\ UNCHANGED <<now, ticks, numDone, BURST_ITEMS, BURST_LAST_TS, PENDING_FILES,
                 PENDING_NAMES, DEFAULT_PLACES, AWAITING_PLACE, DONE_WAITING,
                 timers, flushes, report, batches, paired, discarded,
                 extracted, failed, notes, ended>>

\* burst_end, lines 47-50
burst_end(u) ==
  /\ BURSTS' = Pop(BURSTS, u)
  /\ ended' = IF u \in DOMAIN BURSTS
              THEN ended \cup {windows[BURSTS[u]].items[i].id :
                                 i \in 1..Len(windows[BURSTS[u]].items)}
              ELSE ended
  /\ UNCHANGED <<now, nextId, budget, ticks, numDone, BURST_ITEMS,
                 BURST_LAST_TS, PENDING_FILES, PENDING_NAMES, DEFAULT_PLACES,
                 AWAITING_PLACE, DONE_WAITING, timers, flushes, report,
                 batches, paired, discarded, extracted, hist, failed,
                 windows, tasks, notes>>

\* _flush, lines 54-62 and on: the sleep is over
BulkWake(u) ==
  /\ \E t \in tasks :
       /\ t.u = u
       /\ t.pc = "sleep"
       /\ now >= t.wake
       /\ LET items == windows[t.b].items
              sorted == Undated(SortByDate(items))
              bid == Len(batches) + 1
          IN /\ windows' = [windows EXCEPT ![t.b].items = <<>>]
             /\ IF items = <<>>
                THEN /\ tasks' = tasks \ {t}
                     /\ UNCHANGED <<BURSTS, batches, paired>>
                ELSE BulkSettle(t,
                       BulkConsume([t EXCEPT !.items = sorted, !.bid = bid,
                                             !.last = sorted[Len(sorted)].id]),
                       Append(batches,
                              [u |-> u, kind |-> "bulk", ev |-> t.tid,
                               st |-> "running",
                               items |-> [i \in 1..Len(items) |-> items[i].id],
                               sorted |-> [i \in 1..Len(sorted) |->
                                             [id |-> sorted[i].id,
                                              kind |-> sorted[i].kind]],
                               files |-> <<>>, names |-> 0]))
  /\ UNCHANGED <<now, nextId, budget, ticks, numDone, BURST_ITEMS,
                 BURST_LAST_TS, PENDING_FILES, PENDING_NAMES, DEFAULT_PLACES,
                 AWAITING_PLACE, DONE_WAITING, timers, flushes, report,
                 discarded, extracted, hist, failed, notes, ended>>

\* line 74: get_file returns
BulkGotFile(u) ==
  /\ \E t \in tasks :
       /\ t.u = u
       /\ t.pc = "get_file"
       /\ tasks' = (tasks \ {t}) \cup {[t EXCEPT !.pc = "download_file"]}
  /\ UNCHANGED <<now, nextId, budget, ticks, numDone, BURST_ITEMS,
                 BURST_LAST_TS, PENDING_FILES, PENDING_NAMES, DEFAULT_PLACES,
                 AWAITING_PLACE, DONE_WAITING, timers, flushes, report,
                 batches, paired, discarded, extracted, hist, failed, BURSTS,
                 windows, notes, ended>>

\* lines 75-84: download_file returns, the data is extracted and written
BulkWritten(u) ==
  /\ \E t \in tasks :
       /\ t.u = u
       /\ t.pc = "download_file"
       /\ tasks' = (tasks \ {t}) \cup {[t EXCEPT !.pc = "answer"]}
       /\ report' = Append(report,
                      Call([data |-> t.file.id, customer |-> t.customer.nm,
                            label |-> t.customer.id], <<>>, TRUE))
       /\ extracted' = extracted \cup {[file |-> t.file.id, label |-> t.customer.id]}
  /\ UNCHANGED <<now, nextId, budget, ticks, numDone, BURST_ITEMS,
                 BURST_LAST_TS, PENDING_FILES, PENDING_NAMES, DEFAULT_PLACES,
                 AWAITING_PLACE, DONE_WAITING, timers, flushes, batches,
                 paired, discarded, hist, failed, BURSTS, windows, notes,
                 ended>>

\* line 79: write_to_report raises, and nothing in _flush catches it
BulkWriteRaises(u) ==
  /\ \E t \in tasks :
       /\ t.u = u
       /\ t.pc = "download_file"
       /\ tasks' = tasks \ {t}
       /\ report' = Append(report,
                      Call([data |-> t.file.id, customer |-> t.customer.nm,
                            label |-> t.customer.id], <<>>, FALSE))
       /\ extracted' = extracted \cup {[file |-> t.file.id, label |-> t.customer.id]}
       /\ batches' = [batches EXCEPT ![t.bid].st = "failed"]
  /\ UNCHANGED <<now, nextId, budget, ticks, numDone, BURST_ITEMS,
                 BURST_LAST_TS, PENDING_FILES, PENDING_NAMES, DEFAULT_PLACES,
                 AWAITING_PLACE, DONE_WAITING, timers, flushes, paired,
                 discarded, hist, failed, BURSTS, windows, notes, ended>>

\* lines 74, 75, 77, 84, 98, 100: a call of the bot, or extract_invoice_data,
\* raises, and nothing in _flush catches it
BulkRaises(u) ==
  /\ \E t \in tasks :
       /\ t.u = u
       /\ t.pc \in {"get_file", "download_file", "answer", "warn_file",
                    "warn_names"}
       /\ tasks' = tasks \ {t}
       /\ batches' = [batches EXCEPT ![t.bid].st = "failed"]
  /\ UNCHANGED <<now, nextId, budget, ticks, numDone, BURST_ITEMS,
                 BURST_LAST_TS, PENDING_FILES, PENDING_NAMES, DEFAULT_PLACES,
                 AWAITING_PLACE, DONE_WAITING, timers, flushes, report,
                 paired, discarded, extracted, hist, failed, BURSTS, windows,
                 notes, ended>>

\* line 84: file_msg.answer returns, the while loop and the for loop go on
BulkAnswered(u) ==
  /\ \E t \in tasks :
       /\ t.u = u
       /\ t.pc = "answer"
       /\ BulkSettle(t, BulkTryPair(t), batches)
  /\ UNCHANGED <<now, nextId, budget, ticks, numDone, BURST_ITEMS,
                 BURST_LAST_TS, PENDING_FILES, PENDING_NAMES, DEFAULT_PLACES,
                 AWAITING_PLACE, DONE_WAITING, timers, flushes, report,
                 discarded, extracted, hist, failed, windows, notes, ended>>

\* lines 97-98: the warning about one unmatched file has been sent
BulkWarnedFile(u) ==
  /\ \E t \in tasks :
       /\ t.u = u
       /\ t.pc = "warn_file"
       /\ notes' = Append(notes, [batch |-> t.bid, kind |-> "file",
                                  about |-> t.pf[t.k + 1].id])
       /\ BulkSettle(t, BulkLeftovers([t EXCEPT !.k = t.k + 1]), batches)
  /\ UNCHANGED <<now, nextId, budget, ticks, numDone, BURST_ITEMS,
                 BURST_LAST_TS, PENDING_FILES, PENDING_NAMES, DEFAULT_PLACES,
                 AWAITING_PLACE, DONE_WAITING, timers, flushes, report,
                 discarded, extracted, hist, failed, windows, ended>>

\* lines 99-102: the one warning about the unmatched names has been sent
BulkWarnedNames(u) ==
  /\ \E t \in tasks :
       /\ t.u = u
       /\ t.pc = "warn_names"
       /\ notes' = Append(notes, [batch |-> t.bid, kind |-> "names",
                                  about |-> t.last])
       /\ BulkSettle(t, [t EXCEPT !.pc = "done"], batches)
  /\ UNCHANGED <<now, nextId, budget, ticks, numDone, BURST_ITEMS,
                 BURST_LAST_TS, PENDING_FILES, PENDING_NAMES, DEFAULT_PLACES,
                 AWAITING_PLACE, DONE_WAITING, timers, flushes, report,
                 discarded, extracted, hist, failed, windows, ended>>

BulkNext(u) ==
  \/ collect_and_process(u)
  \/ burst_end(u)
  \/ BulkWake(u)
  \/ BulkGotFile(u)
  \/ BulkWritten(u)
  \/ BulkWriteRaises(u)
  \/ BulkRaises(u)
  \/ BulkAnswered(u)
  \/ BulkWarnedFile(u)
  \/ BulkWarnedNames(u)

NextBulk == Tick \/ BulkNext("u1")

SpecBulk == Init /\ [][NextBulk]_vars

(***************************************************************************)
(* The expiring scenario: user u1 sent document 1 to collect_and_process   *)
(* at time 0 and nothing since; one tick before the window's expires is    *)
(* reached, the window is still in BURSTS, either because the _flush of    *)
(* the document has not been resumed yet, or because it took the batch and *)
(* the warning about the unmatched file raised.                            *)
(***************************************************************************)
ExpiringDoc == [id |-> 1, kind |-> "doc", text |-> <<>>, date |-> 0]

ExpiringTask ==
  [tid |-> 1, u |-> "u1", b |-> 1, wake |-> DEBOUNCE, pc |-> "sleep",
   items |-> <<>>, pf |-> <<>>, pn |-> <<>>, k |-> 0, file |-> NoFile,
   customer |-> NoName, bid |-> 0, last |-> 0]

ExpiringBatch ==
  [u |-> "u1", kind |-> "bulk", ev |-> 1, st |-> "failed", items |-> <<1>>,
   sorted |-> <<[id |-> 1, kind |-> "doc"]>>, files |-> <<>>, names |-> 0]

ExpiringState ==
  /\ now = BURST_TTL - 1
  /\ nextId = 1
  /\ numDone = 0
  /\ BURST_ITEMS = [u \in Users |-> <<>>]
  /\ BURST_LAST_TS = [u \in {} |-> 0]
  /\ PENDING_FILES = [u \in Users |-> <<>>]
  /\ PENDING_NAMES = [u \in Users |-> <<>>]
  /\ DEFAULT_PLACES = [u \in {} |-> <<>>]
  /\ AWAITING_PLACE = [u \in Users |-> <<>>]
  /\ DONE_WAITING = {}
  /\ timers = {}
  /\ flushes = {}
  /\ report = <<>>
  /\ paired = <<>>
  /\ discarded = {}
  /\ extracted = {}
  /\ hist = <<[u |-> "u1", ts |-> 0]>>
  /\ failed = {}
  /\ BURSTS = [u \in {"u1"} |-> 1]
  /\ notes = <<>>
  /\ ended = {}
  /\ \/ /\ windows = <<[expires |-> BURST_TTL, items |-> <<ExpiringDoc>>]>>
        /\ tasks = {ExpiringTask}
        /\ batches = <<>>
     \/ /\ windows = <<[expires |-> BURST_TTL, items |-> <<>>]>>
        /\ tasks = {}
        /\ batches = <<ExpiringBatch>>

InitExpiring ==
  /\ ExpiringState
  /\ budget = MaxMore
  /\ ticks = MaxTime

SpecExpiring == InitExpiring /\ [][NextBulk]_vars

(***************************************************************************)
(* Vocabulary of the properties.                                           *)
(***************************************************************************)
EventIds == 1..nextId
BatchIds == 1..Len(batches)

InBatch(id, b) == \E i \in 1..Len(batches[b].items) : batches[b].items[i] = id

BatchesOf(id) == {b \in BatchIds : InBatch(id, b)}

StoreCount(id) ==
  Cardinality({i \in 1..Len(BURST_ITEMS[hist[id].u]) :
                 BURST_ITEMS[hist[id].u][i].id = id})

FlushesOf(u) == {f \in flushes : f.u = u}
TimersOf(u) == {t \in timers : t.u = u}

\* j is the next message of i's user, and came less than the debounce after i
Close(i, j) ==
  /\ i < j
  /\ hist[i].u = hist[j].u
  /\ \A k \in EventIds : (i < k /\ k < j) => hist[k].u # hist[i].u
  /\ hist[j].ts - hist[i].ts < BURST_DEBOUNCE

DoneTaken(id) == \E b \in BatchesOf(id) : batches[b].kind = "done"

PairsOf(b) ==
  LET idx == {i \in 1..Len(paired) : paired[i].fid = b}
      RECURSIVE Pick(_)
      Pick(i) == IF i > Len(paired) THEN <<>>
                 ELSE IF i \in idx
                      THEN <<[file |-> paired[i].file, label |-> paired[i].label]>>
                           \o Pick(i + 1)
                      ELSE Pick(i + 1)
  IN Pick(1)

OfKind(s, kind) ==
  LET RECURSIVE Pick(_)
      Pick(i) == IF i > Len(s) THEN <<>>
                 ELSE IF s[i].kind = kind THEN <<s[i].id>> \o Pick(i + 1)
                 ELSE Pick(i + 1)
  IN Pick(1)

\* N artifacts and N labels, every label arriving while an artifact is pending
Matchable(b) ==
  LET s == batches[b].sorted
  IN /\ Len(OfKind(s, "doc")) = Len(OfKind(s, "text"))
     /\ \A i \in 1..Len(s) :
          s[i].kind = "text" =>
            Len(OfKind(SubSeq(s, 1, i - 1), "doc"))
              > Len(OfKind(SubSeq(s, 1, i - 1), "text"))

Expected(b) ==
  LET s == batches[b].sorted
  IN [i \in 1..Len(OfKind(s, "doc")) |->
        [file |-> OfKind(s, "doc")[i], label |-> OfKind(s, "text")[i]]]

IsPrefix(s, t) == Len(s) <= Len(t) /\ SubSeq(t, 1, Len(s)) = s

\* the batch whose snapshot holds message id (0: none)
BatchOf(id) == IF BatchesOf(id) = {} THEN 0 ELSE CHOOSE b \in BatchesOf(id) : TRUE

(***************************************************************************)
(* C1. FIFO order: a batch of N artifacts and N labels, every label coming *)
(* while an artifact is pending, emits exactly N pairs, the i-th being     *)
(* (i-th artifact, i-th label) of the batch in time-sorted order.          *)
(***************************************************************************)
C1_FifoOrder ==
  \A b \in BatchIds :
    Matchable(b) =>
      /\ IsPrefix(PairsOf(b), Expected(b))
      /\ batches[b].st = "done" => PairsOf(b) = Expected(b)

(***************************************************************************)
(* C2. Debounce collapsing: of two messages of a user less than the        *)
(* debounce apart, none is in a batch without the other, every batch that  *)
(* holds them was taken by a timer, and once the user's timers have all    *)
(* fired each of them is in exactly one batch.                             *)
(***************************************************************************)
C2_DebounceCollapsing ==
  /\ \A i, j \in EventIds :
       Close(i, j) =>
         \A b \in BatchIds :
           (InBatch(i, b) \/ InBatch(j, b)) =>
             /\ InBatch(i, b) /\ InBatch(j, b)
             /\ batches[b].kind = "timer"
  /\ \A id \in EventIds :
       TimersOf(hist[id].u) = {} => Cardinality(BatchesOf(id)) = 1

(***************************************************************************)
(* C2 as amended: the same, for the messages that no /done-forced          *)
(* flush_burst has snapshotted.                                            *)
(***************************************************************************)
C2_DebounceCollapsingUnlessDone ==
  /\ \A i, j \in EventIds :
       (Close(i, j) /\ ~DoneTaken(i) /\ ~DoneTaken(j)) =>
         \A b \in BatchIds :
           (InBatch(i, b) \/ InBatch(j, b)) =>
             /\ InBatch(i, b) /\ InBatch(j, b)
             /\ batches[b].kind = "timer"
  /\ \A id \in EventIds :
       (TimersOf(hist[id].u) = {} /\ ~DoneTaken(id)) =>
         Cardinality(BatchesOf(id)) = 1

\* three messages, each one tick after the other, in one timer-taken batch
C2_Witness ==
  /\ nextId = 3
  /\ Close(1, 2) /\ Close(2, 3)
  /\ hist[1].ts < hist[2].ts /\ hist[2].ts < hist[3].ts
  /\ timers = {}
  /\ Len(batches) = 1
  /\ batches[1].kind = "timer"
  /\ batches[1].items = <<1, 2, 3>>

(***************************************************************************)
(* C3. Stale-timer safety: a timer whose message is not the last one the   *)
(* user added takes no batch; every batch a timer takes is taken by the    *)
(* timer of the last message in it.                                        *)
(***************************************************************************)
C3_StaleTimerSafety ==
  \A b \in BatchIds :
    batches[b].kind = "timer" =>
      batches[b].ev = batches[b].items[Len(batches[b].items)]

(***************************************************************************)
(* C4. Snapshot atomicity: every message added is either still buffered,   *)
(* once, or in exactly one snapshotted batch, never both and never none.   *)
(***************************************************************************)
C4_SnapshotAtomicity ==
  \A id \in EventIds : Cardinality(BatchesOf(id)) + StoreCount(id) = 1

\* a /done-forced batch and a timer-taken batch, a flush still suspended and
\* a newer message buffered
C4_Witness ==
  /\ \E b1, b2 \in BatchIds : batches[b1].kind = "done" /\ batches[b2].kind = "timer"
  /\ flushes # {}
  /\ BURST_ITEMS["u1"] # <<>>

(***************************************************************************)
(* C5. Per-user mutual exclusion: at most one flush_burst invocation of a  *)
(* user is inside its pairing loop at any time.                            *)
(***************************************************************************)
C5_OneFlushPerUser == \A u \in Users : Cardinality(FlushesOf(u)) <= 1

(***************************************************************************)
(* C6. Asymmetric label guard: a label that met an empty PENDING_FILES is  *)
(* in no queue and in no pair, then or later.                              *)
(***************************************************************************)
C6_LabelGuard ==
  \A id \in discarded :
    /\ \A i \in 1..Len(paired) : paired[i].label # id
    /\ \A u \in Users : \A i \in 1..Len(PENDING_NAMES[u]) : PENDING_NAMES[u][i].id # id
    /\ \A f \in flushes : f.customer.id # id

\* a label was dropped, and an artifact that came after it was paired
C6_Witness ==
  \E id \in discarded : \E i \in 1..Len(paired) :
    /\ paired[i].file > id
    /\ BatchOf(paired[i].file) = BatchOf(id)

(***************************************************************************)
(* C7. No pairing carries across batches: with no flush of the user in     *)
(* progress both pending queues are empty, and every pair joins an         *)
(* artifact and a label of the same batch.                                 *)
(***************************************************************************)
C7_NothingCarriesOver ==
  /\ \A u \in Users :
       FlushesOf(u) = {} => PENDING_FILES[u] = <<>> /\ PENDING_NAMES[u] = <<>>
  /\ \A i \in 1..Len(paired) : BatchOf(paired[i].file) = BatchOf(paired[i].label)

(***************************************************************************)
(* C8. Stale-label clearing.  A name enters PENDING_NAMES only while a     *)
(* file is pending (line 202) and try_pair_and_process pops it before the  *)
(* next await, so no state between two steps has a name left in the queue: *)
(* the case the claim is about, a label left over at the end of a batch,   *)
(* does not arise, and the clear() of line 189 always finds the queue      *)
(* empty.                                                                  *)
(***************************************************************************)
C8_NoLabelLeftOver == \A u \in Users : PENDING_NAMES[u] = <<>>

(***************************************************************************)
(* C9. Deferred resolution: a step that empties a non-empty                *)
(* AWAITING_PLACE[user] hands every pair that was awaiting to              *)
(* write_to_report, in order and with one and the same place.  (With an    *)
(* empty list the place text is ignored: OnTextIgnored changes nothing.)   *)
(***************************************************************************)
ResolvedAll(u) ==
  LET aw == AWAITING_PLACE[u]
      base == Len(report') - Len(aw)
  IN /\ base >= Len(report)
     /\ base <= Len(report) + 1
     /\ SubSeq(report', 1, Len(report)) = report
     /\ \A i \in 1..Len(aw) :
          /\ report'[base + i].file = aw[i].data
          /\ report'[base + i].customer = aw[i].customer
          /\ report'[base + i].label = aw[i].label
          /\ report'[base + i].place = report'[base + 1].place

C9_DeferredResolution ==
  [][\A u \in Users :
       (AWAITING_PLACE[u] # <<>> /\ AWAITING_PLACE'[u] = <<>>) => ResolvedAll(u)]_vars

(***************************************************************************)
(* C10. Finalize routing: the step in which a pair's extraction succeeds   *)
(* hands the pair to write_to_report with the user's default place and     *)
(* does not defer it when a default place is on file, and otherwise        *)
(* appends it to AWAITING_PLACE[user] and writes nothing; no pair is       *)
(* handed to write_to_report twice, none is both written and awaiting.     *)
(***************************************************************************)
Routed(f) ==
  LET item == Item(f)
  IN IF f.u \in DOMAIN DEFAULT_PLACES
     THEN /\ Len(report') > Len(report)
          /\ SubSeq(report', 1, Len(report)) = report
          /\ \E ok \in BOOLEAN :
               report'[Len(report) + 1] = Call(item, DEFAULT_PLACES[f.u], ok)
          /\ \A i \in 1..Len(AWAITING_PLACE'[f.u]) : AWAITING_PLACE'[f.u][i] # item
     ELSE /\ AWAITING_PLACE'[f.u] = Append(AWAITING_PLACE[f.u], item)
          /\ report' = report

WrittenOnce ==
  \A i, j \in 1..Len(report) :
    (report[i].file = report[j].file /\ report[i].label = report[j].label) => i = j

NotWrittenAndAwaiting ==
  \A u \in Users : \A i \in 1..Len(AWAITING_PLACE[u]) : \A j \in 1..Len(report) :
    ~(report[j].file = AWAITING_PLACE[u][i].data
      /\ report[j].label = AWAITING_PLACE[u][i].label)

C10_FinalizeRouting ==
  /\ [](WrittenOnce /\ NotWrittenAndAwaiting)
  /\ [][\A f \in flushes :
          (/\ f.pc = "download"
           /\ [file |-> f.file.id, label |-> f.customer.id] \in extracted' \ extracted)
          => Routed(f)]_vars

\* a pair went straight to write_to_report with the default place
C10_Witness ==
  /\ numDone = 0
  /\ "u1" \in DOMAIN DEFAULT_PLACES
  /\ \E i \in 1..Len(report) :
       /\ report[i].ok
       /\ report[i].place = DEFAULT_PLACES["u1"]
       /\ [file |-> report[i].file, label |-> report[i].label] \in extracted

(***************************************************************************)
(* C11. Resolution when the attribute becomes known: no pair stays in      *)
(* AWAITING_PLACE[user] once a default place of the user is on file.       *)
(***************************************************************************)
C11_ResolvedOnceKnown ==
  \A u \in Users : u \in DOMAIN DEFAULT_PLACES => AWAITING_PLACE[u] = <<>>

(***************************************************************************)
(* C12. Extraction-error isolation: a pair whose extract_invoice_data      *)
(* raised is never handed to write_to_report, never awaiting and never     *)
(* back in a pending queue; in the step in which it raises the failure is  *)
(* being answered and the flush keeps the rest of its batch to go on with. *)
(***************************************************************************)
Dropped(p) ==
  /\ \A i \in 1..Len(report) : ~(report[i].file = p.file /\ report[i].label = p.label)
  /\ \A u \in Users :
       /\ \A i \in 1..Len(AWAITING_PLACE[u]) :
            ~(AWAITING_PLACE[u][i].data = p.file /\ AWAITING_PLACE[u][i].label = p.label)
       /\ \A i \in 1..Len(PENDING_FILES[u]) : PENDING_FILES[u][i].id # p.file
       /\ \A i \in 1..Len(PENDING_NAMES[u]) : PENDING_NAMES[u][i].id # p.label

Answered(p) ==
  \E f \in flushes : \E g \in flushes' :
    /\ f.fid = g.fid
    /\ f.file.id = p.file /\ f.customer.id = p.label
    /\ g.pc = "answer"
    /\ g.items = f.items
    /\ batches'[g.fid].st = "running"

C12_ExtractionIsolation ==
  /\ [](\A p \in failed : Dropped(p))
  /\ [][\A p \in failed' \ failed : Answered(p)]_vars

\* an extraction failed, and the same flush went on to consume the artifact
\* that came after the failed pair in its batch, and finished
C12_Witness ==
  \E i \in 1..Len(paired) :
    LET b == paired[i].fid
        s == batches[b].sorted
    IN /\ [file |-> paired[i].file, label |-> paired[i].label] \in failed
       /\ batches[b].st = "done"
       /\ Len(s) = 3
       /\ s[1].id = paired[i].file
       /\ s[2].id = paired[i].label
       /\ s[3].kind = "doc"
       /\ \E k \in 1..Len(PENDING_FILES[batches[b].u]) :
            PENDING_FILES[batches[b].u][k].id = s[3].id

(***************************************************************************)
(* C15. Non-blocking ingestion: while messages are still to come, a        *)
(* document or a label of any user can be added to the burst in every      *)
(* state, whatever flush_burst invocations are suspended, and the adding   *)
(* step leaves every suspended invocation where it is.                     *)
(***************************************************************************)
C15_NonBlockingIngestion ==
  /\ [](budget > 0 => \A u \in Users : ENABLED OnDocument(u))
  /\ [][nextId' # nextId => flushes' = flushes]_vars

\* a message was added while a flush of the same user was suspended in the
\* download, after that flush had taken its batch
C15_Witness ==
  \E f \in flushes :
    /\ f.pc = "download"
    /\ \E i \in 1..Len(BURST_ITEMS[f.u]) :
         BURST_ITEMS[f.u][i].id > batches[f.fid].items[Len(batches[f.fid].items)]

(***************************************************************************)
(* C19. Drain invariant: between the steps of try_pair_and_process at most *)
(* one of PENDING_FILES[user] and PENDING_NAMES[user] is non-empty.        *)
(***************************************************************************)
C19_DrainInvariant ==
  \A u \in Users : PENDING_FILES[u] = <<>> \/ PENDING_NAMES[u] = <<>>

\* try_pair_and_process has paired a file and a name of a batch, returned
\* with a file still pending, and the flush has finished
C19_Witness ==
  \E i \in 1..Len(paired) :
    LET b == paired[i].fid
    IN /\ batches[b].st = "done"
       /\ PENDING_FILES[batches[b].u] # <<>>
       /\ FlushesOf(batches[b].u) = {}

(***************************************************************************)
(* C17. Write-error isolation: in a step in which write_to_report raises,  *)
(* the flush that called it keeps going when events of its batch remain,   *)
(* and every pair that was awaiting is handed to write_to_report in that   *)
(* step or is still awaiting after it.                                     *)
(***************************************************************************)
WriteRaises ==
  /\ Len(report') > Len(report)
  /\ ~report'[Len(report')].ok

Handed(item) ==
  \E i \in (Len(report) + 1)..Len(report') :
    report'[i].file = item.data /\ report'[i].label = item.label

C17_WriteIsolation ==
  [][WriteRaises =>
       /\ \A f \in flushes :
            (/\ f.pc = "download"
             /\ [file |-> f.file.id, label |-> f.customer.id] \in extracted' \ extracted
             /\ f.items # <<>>)
            => batches'[f.fid].st # "failed"
       /\ \A u \in Users : \A i \in 1..Len(AWAITING_PLACE[u]) :
            \/ Handed(AWAITING_PLACE[u][i])
            \/ \E j \in 1..Len(AWAITING_PLACE'[u]) :
                 AWAITING_PLACE'[u][j] = AWAITING_PLACE[u][i]]_vars

(***************************************************************************)
(* C16. Deferred order: the pairs in AWAITING_PLACE[user] are in the order *)
(* in which they were matched, and a step that resolves them hands them to *)
(* write_to_report in that order.                                          *)
(***************************************************************************)
MatchIndex(item) ==
  CHOOSE i \in 1..Len(paired) :
    paired[i].file = item.data /\ paired[i].label = item.label

InMatchOrder(aw) ==
  \A i, j \in 1..Len(aw) : i < j => MatchIndex(aw[i]) < MatchIndex(aw[j])

EmittedInOrder(u) ==
  LET aw == AWAITING_PLACE[u]
      n == Len(report') - Len(report)
  IN \A i \in 1..n :
       i <= Len(aw) /\ report'[Len(report) + i].file = aw[i].data
                    /\ report'[Len(report) + i].label = aw[i].label

C16_DeferredOrder ==
  /\ [](\A u \in Users : InMatchOrder(AWAITING_PLACE[u]))
  /\ [][\A u \in Users :
          (AWAITING_PLACE[u] # <<>> /\ AWAITING_PLACE'[u] = <<>>
           /\ u \notin DOMAIN DEFAULT_PLACES)
          => EmittedInOrder(u)]_vars

(***************************************************************************)
(* C20. Eventual processing: once the user's timers have all fired the     *)
(* burst store is empty, and when no more messages come and the clock has  *)
(* the debounce interval still to run, every buffered message is           *)
(* eventually in a snapshotted batch and the store is eventually empty.    *)
(***************************************************************************)
Snapshotted(u) ==
  /\ BURST_ITEMS[u] = <<>>
  /\ \A id \in EventIds : hist[id].u = u => BatchesOf(id) # {}

C20_EventualProcessing ==
  /\ [](\A u \in Users : TimersOf(u) = {} => BURST_ITEMS[u] = <<>>)
  /\ \A u \in Users :
       (budget = 0 /\ ticks >= BURST_DEBOUNCE /\ BURST_ITEMS[u] # <<>>)
         ~> Snapshotted(u)

\* two messages one tick apart: the first timer was judged stale, the second
\* took both
C20_Witness ==
  /\ budget = 0
  /\ nextId = 2
  /\ hist[1].ts < hist[2].ts
  /\ timers = {}
  /\ Len(batches) = 1
  /\ batches[1].kind = "timer"
  /\ batches[1].ev = 2
  /\ batches[1].items = <<1, 2>>
  /\ Snapshotted("u1")

(***************************************************************************)
(* C18. Recovery after failure: an artifact or a label of a batch whose    *)
(* flush ended with a failure is in no pair but those that flush made      *)
(* itself: what the user sends afterwards is paired only among itself.     *)
(***************************************************************************)
FlushFailed(b) ==
  \/ batches[b].st = "failed"
  \/ \E i \in 1..Len(paired) :
       /\ paired[i].fid = b
       /\ [file |-> paired[i].file, label |-> paired[i].label] \in failed

C18_RecoveryAfterFailure ==
  \A i \in 1..Len(paired) : \A b \in BatchIds :
    (FlushFailed(b) /\ (InBatch(paired[i].file, b) \/ InBatch(paired[i].label, b)))
      => paired[i].fid = b


(***************************************************************************)
(* C13.  Once the events of a batch are consumed, every artifact that is   *)
(* still pending has been answered by exactly one "unmatched artifact"     *)
(* notification, the unmatched labels of the batch by one notification for *)
(* them all, and nothing else was notified.                                *)
(***************************************************************************)
NotesAbout(b, kind, id) ==
  Cardinality({i \in 1..Len(notes) :
                 notes[i] = [batch |-> b, kind |-> kind, about |-> id]})

\* flush_burst: the artifacts and labels a finished batch leaves pending
C13_UnmatchedNotified ==
  \A u \in Users :
    FlushesOf(u) = {} /\ (\E b \in BatchIds : batches[b].u = u /\ batches[b].st = "done")
    => /\ \A i \in 1..Len(PENDING_FILES[u]) :
            \E b \in BatchIds : NotesAbout(b, "file", PENDING_FILES[u][i].id) = 1
       /\ PENDING_NAMES[u] # <<>> =>
            \E i \in 1..Len(notes) : notes[i].kind = "names"

\* _flush: the same, of the queues that are local to it
BulkUnmatchedNotified ==
  \A b \in BatchIds :
    /\ batches[b].st = "done" =>
         /\ \A i \in 1..Len(batches[b].files) :
              NotesAbout(b, "file", batches[b].files[i]) = 1
         /\ Cardinality({i \in 1..Len(notes) :
                           notes[i].batch = b /\ notes[i].kind = "names"})
              = IF batches[b].names > 0 THEN 1 ELSE 0
         /\ \A i \in 1..Len(notes) :
              notes[i].batch = b /\ notes[i].kind = "file" =>
                \E j \in 1..Len(batches[b].files) :
                  batches[b].files[j] = notes[i].about
    /\ \A i, j \in 1..Len(notes) :
         notes[i] = notes[j] /\ notes[i].batch = b => i = j

BulkUnmatchedWitness ==
  \E b \in BatchIds :
    /\ batches[b].st = "done"
    /\ Len(batches[b].files) = 1
    /\ batches[b].names = 0
    /\ \E i \in 1..Len(paired) : paired[i].fid = b

(***************************************************************************)
(* C14.  burst_end leaves the user without buffered events, and no event   *)
(* that it found buffered is processed afterwards.                         *)
(***************************************************************************)
C14_BufferPurge ==
  /\ [](\A id \in ended : \A b \in BatchIds : ~InBatch(id, b))
  /\ [][\A u \in Users : ended' # ended => u \notin DOMAIN BURSTS']_vars


(***************************************************************************)
(* C21.  Quiet period in bulk_forward: the _flush that takes a batch is    *)
(* the one of the newest message in it (a _flush scheduled before a newer  *)
(* message arrived does no work), and of two messages of a user less than  *)
(* DEBOUNCE apart none is in a batch without the other.                    *)
(***************************************************************************)
\* j is the next message of i's user, and came less than DEBOUNCE after i
BulkClose(i, j) ==
  /\ i < j
  /\ hist[i].u = hist[j].u
  /\ \A k \in EventIds : (i < k /\ k < j) => hist[k].u # hist[i].u
  /\ hist[j].ts - hist[i].ts < DEBOUNCE

C21_BulkQuietPeriod ==
  /\ \A b \in BatchIds :
       batches[b].kind = "bulk" =>
         \A i \in 1..Len(batches[b].items) : batches[b].items[i] <= batches[b].ev
  /\ \A i, j \in EventIds :
       BulkClose(i, j) =>
         \A b \in BatchIds :
           (InBatch(i, b) \/ InBatch(j, b)) => (InBatch(i, b) /\ InBatch(j, b))

(***************************************************************************)
(* C22.  Label guard in bulk_forward: _flush queues a name only while a    *)
(* file is pending, so no name waits in its queue at an await, no finished *)
(* batch has names left over, and every pair is made of a file and a label *)
(* that comes after it in the batch.                                       *)
(***************************************************************************)
\* where message id stands in the sorted batch b (0: nowhere)
Position(id, b) ==
  LET at == {i \in 1..Len(batches[b].sorted) : batches[b].sorted[i].id = id}
  IN IF at = {} THEN 0 ELSE CHOOSE i \in at : TRUE

C22_BulkLabelGuard ==
  /\ \A t \in tasks : t.pn = <<>>
  /\ \A b \in BatchIds : batches[b].kind = "bulk" => batches[b].names = 0
  /\ \A i \in 1..Len(paired) :
       batches[paired[i].fid].kind = "bulk" =>
         Position(paired[i].file, paired[i].fid)
           < Position(paired[i].label, paired[i].fid)


(***************************************************************************)
(* C23.  Stale-window reset: an _add for a user whose window has           *)
(* expires < now leaves the expired window as it is and gives the user a   *)
(* new one that holds the added message only, and after every _add the     *)
(* user's window has expires = time of the add + BURST_TTL.                *)
(***************************************************************************)
C23_StaleWindowReset ==
  [][nextId' # nextId =>
       LET u == hist'[nextId'].u
           old == IF u \in DOMAIN BURSTS THEN BURSTS[u] ELSE 0
           b == BURSTS'[u]
       IN /\ windows'[b].expires = now + BURST_TTL
          /\ (old # 0 /\ windows[old].expires < now) =>
               /\ b # old
               /\ windows'[old] = windows[old]
               /\ Len(windows'[b].items) = 1
               /\ windows'[b].items[1].id = nextId']_vars

\* message 2 came after window 1 expired with message 1 still in it
C23_Witness ==
  /\ Len(windows) = 2
  /\ nextId = 2
  /\ "u1" \in DOMAIN BURSTS
  /\ BURSTS["u1"] = 2
  /\ Len(windows[1].items) = 1
  /\ windows[1].expires < hist[2].ts
  /\ Len(windows[2].items) = 1
  /\ windows[2].items[1].id = 2
  /\ windows[2].expires = hist[2].ts + BURST_TTL


(***************************************************************************)
(* C24.  Cross-user isolation: a step of a handler, timer or flush of user *)
(* u leaves the burst items, the last-message time, the pending queues,    *)
(* the awaiting list and the default place of every other user as they     *)
(* were.                                                                   *)
(***************************************************************************)
Entry(d, v) == IF v \in DOMAIN d THEN <<d[v]>> ELSE <<>>

UserState(v) ==
  <<BURST_ITEMS[v], Entry(BURST_LAST_TS, v), PENDING_FILES[v],
    PENDING_NAMES[v], AWAITING_PLACE[v], Entry(DEFAULT_PLACES, v)>>

UserStateAfter(v) ==
  <<BURST_ITEMS'[v], Entry(BURST_LAST_TS', v), PENDING_FILES'[v],
    PENDING_NAMES'[v], AWAITING_PLACE'[v], Entry(DEFAULT_PLACES', v)>>

C24_CrossUserIsolation ==
  [][\A u \in Users :
       UserNext(u) => \A v \in Users \ {u} : UserStateAfter(v) = UserState(v)]_vars

\* u1's document is pending and its time on file while u2's, sent later,
\* is buffered
C24_Witness ==
  /\ nextId = 2
  /\ hist[1].u = "u1" /\ hist[2].u = "u2"
  /\ hist[1].ts < hist[2].ts
  /\ Len(PENDING_FILES["u1"]) = 1
  /\ PENDING_FILES["u2"] = <<>>
  /\ Len(BURST_ITEMS["u2"]) = 1
  /\ BURST_LAST_TS = [u \in Users |-> IF u = "u1" THEN hist[1].ts ELSE hist[2].ts]


(***************************************************************************)
(* C25.  DONE_WAITING consistency: a user is in DONE_WAITING only while    *)
(* that user's AWAITING_PLACE list is not empty.                           *)
(***************************************************************************)
C25_DoneWaitingConsistent ==
  \A u \in DONE_WAITING : AWAITING_PLACE[u] # <<>>

=============================================================================
